---- MODULE Spec2Model ----
(***************************************************************************)
(* Model of src/bot.py: a Telegram bot that routes a user's text message   *)
(* to the Gemini and/or Grok backend according to the AI choice stored in  *)
(* the session's user_data, renders the answer(s) into one text and sends  *)
(* it back, split into pieces of at most 4000 characters.                  *)
(*                                                                         *)
(* Handlers are coroutines: a handler runs until it awaits, and the event  *)
(* loop may then run a step of another handler.  One action of the model   *)
(* is the code between two suspension points.  The synchronous call        *)
(* generate_content (line 43) does not await: while it runs, the event     *)
(* loop runs nothing else.                                                 *)
(*                                                                         *)
(* main() builds the Application with its defaults (line 346), under which *)
(* the library awaits one handler before it starts the next.  The model    *)
(* keeps message handlers one at a time, and is more permissive for the    *)
(* button events: it lets them in at every suspension point of a message   *)
(* in hand.                                                                *)
(*                                                                         *)
(* Strings are run-length encoded: a text is a sequence of runs            *)
(* [ch, n], n > 0, adjacent runs having different characters.  Each string *)
(* literal of the program is a run of its own character, so that slicing   *)
(* and concatenation are computed as Python computes them, on lengths.     *)
(***************************************************************************)
EXTENDS Integers, Sequences, FiniteSets, TLC

\* ------------------------------------------------------------------ bounds
\* A successful backend answer is 1 character long, or just fills / just
\* overflows c pieces of ChunkSize once labelled, for c up to MaxBodyChunks.
MaxBodyChunks == 2

\* ------------------------------------------------------- program constants
ChunkSize == 4000
GeminiLabelLen == 16
GrokLabelLen == 13
BarLen == 30
GeminiNotConfiguredLen == 84
GrokNotConfiguredLen == 80
GeminiErrorPrefixLen == 16
GrokErrorPrefixLen == 14
GrokApiErrorPrefixLen == 18

Sessions == {"s1", "s2"}
Providers == {"gemini", "grok"}

\* ------------------------------------------------------------------- texts
Str(c, n) == IF n = 0 THEN <<>> ELSE << [ch |-> c, n |-> n] >>

RECURSIVE TLen(_)
TLen(t) == IF t = <<>> THEN 0 ELSE t[1].n + TLen(Tail(t))

\* Python's a + b
TCat(a, b) ==
    IF a = <<>> THEN b
    ELSE IF b = <<>> THEN a
    ELSE IF a[Len(a)].ch = b[1].ch
         THEN SubSeq(a, 1, Len(a) - 1)
                \o << [ch |-> b[1].ch, n |-> a[Len(a)].n + b[1].n] >>
                \o Tail(b)
         ELSE a \o b

RECURSIVE Take(_, _)
Take(t, k) ==
    IF k <= 0 \/ t = <<>> THEN <<>>
    ELSE IF t[1].n <= k THEN TCat(<< t[1] >>, Take(Tail(t), k - t[1].n))
    ELSE << [ch |-> t[1].ch, n |-> k] >>

RECURSIVE Drop(_, _)
Drop(t, k) ==
    IF k <= 0 \/ t = <<>> THEN t
    ELSE IF t[1].n <= k THEN Drop(Tail(t), k - t[1].n)
    ELSE << [ch |-> t[1].ch, n |-> t[1].n - k] >> \o Tail(t)

\* variant: the slice stops one character early
Slice_DropLast(t, lo, hi) == Take(Drop(t, lo), hi - lo - 1)

\* Python's t[lo:hi] for 0 <= lo <= hi
Slice(t, lo, hi) == Take(Drop(t, lo), hi - lo)

\* Python's sep.join(list)
RECURSIVE Join(_, _)
Join(sep, list) ==
    IF list = <<>> THEN <<>>
    ELSE IF Len(list) = 1 THEN list[1]
    ELSE TCat(TCat(list[1], sep), Join(sep, Tail(list)))

\* concatenation of a list of texts
RECURSIVE ConcatAll(_)
ConcatAll(list) ==
    IF list = <<>> THEN <<>> ELSE TCat(list[1], ConcatAll(Tail(list)))

\* the string literals of the program
GeminiLabel == Str("gemini_label", GeminiLabelLen)
GrokLabel == Str("grok_label", GrokLabelLen)
Newlines == Str("nl", 2)
Separator == TCat(Newlines, Str("bar", BarLen))
GeminiNotConfigured == Str("gemini_not_configured", GeminiNotConfiguredLen)
GrokNotConfigured == Str("grok_not_configured", GrokNotConfiguredLen)
GeminiErrorText == TCat(Str("gemini_error", GeminiErrorPrefixLen), Str("exc", 1))
GrokErrorText == TCat(Str("grok_error", GrokErrorPrefixLen), Str("exc", 1))
GrokApiErrorText == TCat(Str("grok_api_error", GrokApiErrorPrefixLen), Str("status_and_body", 7))
error_text == Str("oops", 1)

\* ------------------------------------------------------------------ inputs
\* callback_data of the buttons the bot attaches to its messages
Choices == {"gemini", "grok", "both_ai", "help", "start_chat",
            "switch_ai", "new_question"}

\* lengths of the text of a successful backend answer
AnswerLens(labelLen) ==
    {1, 9000 - labelLen}
      \cup { c * ChunkSize - labelLen + d : c \in 1..MaxBodyChunks, d \in 0..1 }

\* what generate_content does when it returns: a text, or an exception
GeminiOutcomes ==
    { [ok |-> TRUE, text |-> Str("gemini_text", n)] : n \in AnswerLens(GeminiLabelLen) }
      \cup { [ok |-> FALSE, text |-> GeminiErrorText] }

\* what the POST does when it completes: status 200 with a well-formed body,
\* another status, or an exception (network error, malformed body)
GrokOutcomes ==
    { [ok |-> TRUE, text |-> Str("grok_text", n)] : n \in {1, ChunkSize} }
      \cup { [ok |-> FALSE, text |-> GrokApiErrorText],
             [ok |-> FALSE, text |-> GrokErrorText] }

\* ------------------------------------------------------------------- state
VARIABLES
    gemini_model,    \* AIChatBot.gemini_model is set (a Gemini key is configured)
    grok_api_key,    \* AIChatBot.grok_api_key is set
    user_data,       \* session -> context.user_data.get('ai_choice'), or Absent
    pc,              \* session -> where its handle_message coroutine is
    ai_choice,       \* handle_message's local ai_choice
    responses,       \* handle_message's local responses
    final_response,  \* handle_message's local final_response (<<>>: unbound)
    i,               \* index of the next piece to send
    calls,           \* session -> adapter invocations of the message in hand
    results,         \* session -> what each adapter invocation returned
    sent,            \* session -> what reply_text delivered for the message in hand
    status_reply     \* what the last status_command since the last message did

vars == << gemini_model, grok_api_key, user_data, pc, ai_choice, responses,
           final_response, i, calls, results, sent, status_reply >>

Absent == "absent"

locals == << ai_choice, responses, final_response, i >>
config == << gemini_model, grok_api_key >>

\* what os.getenv gives for an API key: None, an empty string, the
\* placeholder of the sample environment file, or a key
EnvValues == {"absent", "", "placeholder", "key"}

\* lines 25-30: gemini_model is set
InitGeminiModel(key) == key \notin {"absent", ""} /\ key # "placeholder"

\* lines 33-35: grok_api_key is set to a non-empty string
InitGrokKey(key) == key \notin {"absent", ""} /\ key # "placeholder"

\* no status_command has answered since the last message
NoStatus == [session |-> "none", shown |-> "none", gemini |-> FALSE, grok |-> FALSE]

Init ==
    /\ gemini_model \in { InitGeminiModel(k) : k \in EnvValues }
    /\ grok_api_key \in { InitGrokKey(k) : k \in EnvValues }
    /\ status_reply = NoStatus
    /\ user_data = [s \in Sessions |-> Absent]
    /\ pc = [s \in Sessions |-> "idle"]
    /\ ai_choice = [s \in Sessions |-> Absent]
    /\ responses = [s \in Sessions |-> <<>>]
    /\ final_response = [s \in Sessions |-> <<>>]
    /\ i = [s \in Sessions |-> 0]
    /\ calls = [s \in Sessions |-> <<>>]
    /\ results = [s \in Sessions |-> <<>>]
    /\ sent = [s \in Sessions |-> <<>>]

\* generate_content is running: the event loop is blocked in it
LoopBlocked == \E s \in Sessions : pc[s] \in {"gemini", "gemini_stalled"}

\* no handle_message coroutine is in progress (updates are taken one by one)
NoMessageInHand == \A s \in Sessions : pc[s] = "idle"

\* ------------------------------------------------------------ button_handler
\* variant: the choice is kept in one place for all sessions
button_handler_Global(s, choice, answered) ==
    /\ ~LoopBlocked
    /\ user_data' =
         IF answered /\ choice \notin {"help", "start_chat"}
         THEN [t \in Sessions |-> choice]
         ELSE user_data
    /\ UNCHANGED << config, status_reply, pc, locals, calls, results, sent >>

\* variant: 'help' and 'start_chat' are stored like any other choice
button_handler_StoreAll(s, choice, answered) ==
    /\ ~LoopBlocked
    /\ user_data' =
         IF answered THEN [user_data EXCEPT ![s] = choice] ELSE user_data
    /\ UNCHANGED << config, status_reply, pc, locals, calls, results, sent >>

\* answered: query.answer() succeeded (otherwise the handler raises there)
button_handler(s, choice, answered) ==
    /\ ~LoopBlocked
    /\ user_data' =
         IF answered /\ choice \notin {"help", "start_chat"}
         THEN [user_data EXCEPT ![s] = choice]
         ELSE user_data
    /\ UNCHANGED << config, status_reply, pc, locals, calls, results, sent >>

\* ------------------------------------------------------------ status_command
\* ai_names (line 322)
ai_names ==
    [gemini |-> "Gemini Pro", grok |-> "Grok AI", both_ai |-> "Both AIs"]

\* variant: the default is stored when it is read
status_command_Setdefault(s, delivered) ==
    /\ NoMessageInHand
    /\ user_data' = [user_data EXCEPT ![s] = IF @ = Absent THEN "gemini" ELSE @]
    /\ LET choice == user_data'[s]
       IN  status_reply' =
             [session |-> s,
              shown |-> IF choice \notin DOMAIN ai_names THEN "KeyError"
                        ELSE IF delivered THEN ai_names[choice]
                        ELSE "undelivered",
              gemini |-> gemini_model,
              grok |-> grok_api_key]
    /\ UNCHANGED << config, pc, locals, calls, results, sent >>

\* lines 303-337: the status text names the session's selection; ai_names
\* raises KeyError for a stored choice it does not know
status_command(s, delivered) ==
    /\ NoMessageInHand
    /\ LET choice == IF user_data[s] = Absent THEN "gemini" ELSE user_data[s]
       IN  status_reply' =
             [session |-> s,
              shown |-> IF choice \notin DOMAIN ai_names THEN "KeyError"
                        ELSE IF delivered THEN ai_names[choice]
                        ELSE "undelivered",
              gemini |-> gemini_model,
              grok |-> grok_api_key]
    /\ UNCHANGED << config, user_data, pc, locals, calls, results, sent >>

\* ------------------------------------------------------------ handle_message
\* variant: the exception leaves the handler, no error message is sent
ToErrorReply_Raise(s) ==
    /\ pc' = [pc EXCEPT ![s] = "raised"]

\* the except branch, line 285: the next await is reply_text(error_text)
ToErrorReply(s) ==
    /\ pc' = [pc EXCEPT ![s] = "error_reply"]

\* line 267 on: the first reply_text is awaited
ToReply(s, text) ==
    /\ final_response' = [final_response EXCEPT ![s] = text]
    /\ i' = [i EXCEPT ![s] = 0]
    /\ pc' = [pc EXCEPT ![s] = "reply"]

\* variant: the later answer is put in front of the earlier one
AfterGrok_Prepend(s, r) ==
    /\ results' = [results EXCEPT ![s] = Append(@, [p |-> "grok", ok |-> r.ok, text |-> r.text])]
    /\ IF ai_choice[s] = "both_ai"
       THEN /\ responses' = [responses EXCEPT ![s] = << TCat(GrokLabel, r.text) >> \o @]
            /\ ToReply(s, TCat(Separator, Join(Newlines, responses'[s])))
       ELSE /\ ToReply(s, TCat(GrokLabel, r.text))
            /\ UNCHANGED responses

\* variant: the answer is added to the responses twice
AfterGrok_Duplicate(s, r) ==
    /\ results' = [results EXCEPT ![s] = Append(@, [p |-> "grok", ok |-> r.ok, text |-> r.text])]
    /\ IF ai_choice[s] = "both_ai"
       THEN /\ responses' = [responses EXCEPT ![s] =
                               Append(Append(@, TCat(GrokLabel, r.text)),
                                      TCat(GrokLabel, r.text))]
            /\ ToReply(s, TCat(Separator, Join(Newlines, responses'[s])))
       ELSE /\ ToReply(s, TCat(GrokLabel, r.text))
            /\ UNCHANGED responses

\* variant: the mode is read again from the session when the answer arrives
AfterGrok_Reread(s, r) ==
    /\ results' = [results EXCEPT ![s] = Append(@, [p |-> "grok", ok |-> r.ok, text |-> r.text])]
    /\ IF user_data[s] = "both_ai"
       THEN /\ responses' = [responses EXCEPT ![s] = Append(@, TCat(GrokLabel, r.text))]
            /\ ToReply(s, TCat(Separator, Join(Newlines, responses'[s])))
       ELSE /\ ToReply(s, TCat(GrokLabel, r.text))
            /\ UNCHANGED responses

\* grok_chat has returned r
AfterGrok(s, r) ==
    /\ results' = [results EXCEPT ![s] = Append(@, [p |-> "grok", ok |-> r.ok, text |-> r.text])]
    /\ IF ai_choice[s] = "both_ai"
       THEN /\ responses' = [responses EXCEPT ![s] = Append(@, TCat(GrokLabel, r.text))]
            /\ ToReply(s, TCat(Separator, Join(Newlines, responses'[s])))
       ELSE /\ ToReply(s, TCat(GrokLabel, r.text))
            /\ UNCHANGED responses

\* variant: the request is made whether or not a key is set
CallGrok_NoCheck(s) ==
    /\ calls' = [calls EXCEPT ![s] = Append(@, [p |-> "grok", net |-> TRUE])]
    /\ pc' = [pc EXCEPT ![s] = "grok"]
    /\ UNCHANGED << responses, final_response, i, results >>

\* grok_chat is called
CallGrok(s) ==
    IF grok_api_key
    THEN /\ calls' = [calls EXCEPT ![s] = Append(@, [p |-> "grok", net |-> TRUE])]
         /\ pc' = [pc EXCEPT ![s] = "grok"]
         /\ UNCHANGED << responses, final_response, i, results >>
    ELSE /\ calls' = [calls EXCEPT ![s] = Append(@, [p |-> "grok", net |-> FALSE])]
         /\ AfterGrok(s, [ok |-> FALSE, text |-> GrokNotConfigured])

\* variant: a failure of the backend is raised instead of returned
AfterGemini_Abort(s, r) ==
    IF r.ok
    THEN /\ results' = [results EXCEPT ![s] = Append(@, [p |-> "gemini", ok |-> r.ok, text |-> r.text])]
         /\ IF ai_choice[s] = "both_ai"
            THEN /\ responses' = [responses EXCEPT ![s] = Append(@, TCat(GeminiLabel, r.text))]
                 /\ pc' = [pc EXCEPT ![s] = "typing_grok"]
                 /\ UNCHANGED << final_response, i >>
            ELSE /\ ToReply(s, TCat(GeminiLabel, r.text))
                 /\ UNCHANGED responses
    ELSE /\ ToErrorReply(s)
         /\ UNCHANGED << results, responses, final_response, i >>

\* variant: the Grok adapter is called after Gemini in every mode
AfterGemini_AlsoGrok(s, r) ==
    /\ results' = [results EXCEPT ![s] = Append(@, [p |-> "gemini", ok |-> r.ok, text |-> r.text])]
    /\ responses' = [responses EXCEPT ![s] = Append(@, TCat(GeminiLabel, r.text))]
    /\ pc' = [pc EXCEPT ![s] = "typing_grok"]
    /\ UNCHANGED << final_response, i >>

\* gemini_chat has returned r
AfterGemini(s, r) ==
    /\ results' = [results EXCEPT ![s] = Append(@, [p |-> "gemini", ok |-> r.ok, text |-> r.text])]
    /\ IF ai_choice[s] = "both_ai"
       THEN /\ responses' = [responses EXCEPT ![s] = Append(@, TCat(GeminiLabel, r.text))]
            /\ pc' = [pc EXCEPT ![s] = "typing_grok"]
            /\ UNCHANGED << final_response, i >>
       ELSE /\ ToReply(s, TCat(GeminiLabel, r.text))
            /\ UNCHANGED responses

\* gemini_chat is called
CallGemini(s) ==
    IF gemini_model
    THEN /\ calls' = [calls EXCEPT ![s] = Append(@, [p |-> "gemini", net |-> TRUE])]
         /\ pc' = [pc EXCEPT ![s] = "gemini"]
         /\ UNCHANGED << responses, final_response, i, results >>
    ELSE /\ calls' = [calls EXCEPT ![s] = Append(@, [p |-> "gemini", net |-> FALSE])]
         /\ AfterGemini(s, [ok |-> FALSE, text |-> GeminiNotConfigured])

\* lines 232-239: a text message arrives; the mode is read, typing is sent
HandleMessage(s) ==
    /\ NoMessageInHand
    /\ ai_choice' = [ai_choice EXCEPT ![s] =
                       IF user_data[s] = Absent THEN "gemini" ELSE user_data[s]]
    /\ pc' = [pc EXCEPT ![s] = "typing"]
    /\ status_reply' = NoStatus
    /\ UNCHANGED << config, user_data, responses, final_response, i,
                    calls, results, sent >>

\* variant: an unrecognised choice is routed to Gemini
TypingDone_Fallback(s, ok) ==
    /\ ~LoopBlocked
    /\ pc[s] = "typing"
    /\ IF ~ok
       THEN /\ pc' = [pc EXCEPT ![s] = "raised"]
            /\ UNCHANGED << responses, final_response, i, calls, results >>
       ELSE IF ai_choice[s] = "both_ai"
       THEN /\ pc' = [pc EXCEPT ![s] = "typing_gemini"]
            /\ UNCHANGED << responses, final_response, i, calls, results >>
       ELSE IF ai_choice[s] = "grok" THEN CallGrok(s)
       ELSE CallGemini(s)
    /\ UNCHANGED << config, status_reply, user_data, ai_choice, sent >>

\* line 239 completes; lines 241-264 up to the next suspension
TypingDone(s, ok) ==
    /\ ~LoopBlocked
    /\ pc[s] = "typing"
    /\ IF ~ok
       THEN /\ pc' = [pc EXCEPT ![s] = "raised"]
            /\ UNCHANGED << responses, final_response, i, calls, results >>
       ELSE IF ai_choice[s] = "both_ai"
       THEN /\ pc' = [pc EXCEPT ![s] = "typing_gemini"]
            /\ UNCHANGED << responses, final_response, i, calls, results >>
       ELSE IF ai_choice[s] = "gemini" THEN CallGemini(s)
       ELSE IF ai_choice[s] = "grok" THEN CallGrok(s)
       ELSE /\ ToErrorReply(s)
            /\ UNCHANGED << responses, final_response, i, calls, results >>
    /\ UNCHANGED << config, status_reply, user_data, ai_choice, sent >>

\* line 247 completes; line 248 calls gemini_chat
TypingGeminiDone(s, ok) ==
    /\ ~LoopBlocked
    /\ pc[s] = "typing_gemini"
    /\ IF ok
       THEN CallGemini(s)
       ELSE /\ ToErrorReply(s)
            /\ UNCHANGED << responses, final_response, i, calls, results >>
    /\ UNCHANGED << config, status_reply, user_data, ai_choice, sent >>

\* generate_content returns or raises (lines 43-47)
GeminiReturn(s, r) ==
    /\ pc[s] = "gemini"
    /\ AfterGemini(s, r)
    /\ UNCHANGED << config, status_reply, user_data, ai_choice, calls, sent >>

\* the Gemini backend never answers: generate_content is given no timeout
GeminiStall(s) ==
    /\ pc[s] = "gemini"
    /\ pc' = [pc EXCEPT ![s] = "gemini_stalled"]
    /\ UNCHANGED << config, status_reply, user_data, locals, calls, results, sent >>

\* line 252 completes; line 253 calls grok_chat
TypingGrokDone(s, ok) ==
    /\ ~LoopBlocked
    /\ pc[s] = "typing_grok"
    /\ IF ok
       THEN CallGrok(s)
       ELSE /\ ToErrorReply(s)
            /\ UNCHANGED << responses, final_response, i, calls, results >>
    /\ UNCHANGED << config, status_reply, user_data, ai_choice, sent >>

\* the POST completes (lines 80-88)
GrokReturn(s, r) ==
    /\ ~LoopBlocked
    /\ pc[s] = "grok"
    /\ AfterGrok(s, r)
    /\ UNCHANGED << config, status_reply, user_data, ai_choice, calls, sent >>

\* the Grok backend never answers
GrokStall(s) ==
    /\ ~LoopBlocked
    /\ pc[s] = "grok"
    /\ pc' = [pc EXCEPT ![s] = "grok_stalled"]
    /\ UNCHANGED << config, status_reply, user_data, locals, calls, results, sent >>

\* timeout=30.0 (line 77) expires: httpx raises, line 86 catches
GrokTimeout(s) ==
    /\ ~LoopBlocked
    /\ pc[s] = "grok_stalled"
    /\ AfterGrok(s, [ok |-> FALSE, text |-> GrokErrorText])
    /\ UNCHANGED << config, status_reply, user_data, ai_choice, calls, sent >>

\* variant: the range includes its end
InRange_Inclusive(k, n) == k <= n

\* range(0, n, ChunkSize) yields k (line 268)
InRange(k, n) == k < n

\* lines 267-283: one reply_text completes (delivered, or the transport raises)
Reply(s, delivered) ==
    /\ ~LoopBlocked
    /\ pc[s] = "reply"
    /\ IF ~delivered
       THEN /\ ToErrorReply(s)
            /\ UNCHANGED << i, sent >>
       ELSE IF TLen(final_response[s]) > ChunkSize
       THEN /\ sent' = [sent EXCEPT ![s] = Append(@,
                          [kind |-> "reply", markup |-> FALSE,
                           text |-> Slice(final_response[s], i[s], i[s] + ChunkSize)])]
            /\ i' = [i EXCEPT ![s] = @ + ChunkSize]
            /\ pc' = [pc EXCEPT ![s] =
                        IF InRange(i[s] + ChunkSize, TLen(final_response[s]))
                        THEN "reply" ELSE "replied"]
       ELSE /\ sent' = [sent EXCEPT ![s] = Append(@,
                          [kind |-> "reply", markup |-> TRUE,
                           text |-> final_response[s]])]
            /\ pc' = [pc EXCEPT ![s] = "replied"]
            /\ UNCHANGED i
    /\ UNCHANGED << config, status_reply, user_data, ai_choice, responses, final_response,
                    calls, results >>

\* lines 285-297: reply_text(error_text) completes, or raises out of the handler
ErrorReply(s, delivered) ==
    /\ ~LoopBlocked
    /\ pc[s] = "error_reply"
    /\ IF delivered
       THEN /\ sent' = [sent EXCEPT ![s] = Append(@,
                          [kind |-> "error", markup |-> FALSE, text |-> error_text])]
            /\ pc' = [pc EXCEPT ![s] = "error_replied"]
       ELSE /\ pc' = [pc EXCEPT ![s] = "raised"]
            /\ UNCHANGED sent
    /\ UNCHANGED << config, status_reply, user_data, locals, calls, results >>

Finished == {"replied", "error_replied", "raised"}

\* the coroutine is over: its locals are gone, the session may send again
Return(s) ==
    /\ ~LoopBlocked
    /\ pc[s] \in Finished
    /\ pc' = [pc EXCEPT ![s] = "idle"]
    /\ ai_choice' = [ai_choice EXCEPT ![s] = Absent]
    /\ responses' = [responses EXCEPT ![s] = <<>>]
    /\ final_response' = [final_response EXCEPT ![s] = <<>>]
    /\ i' = [i EXCEPT ![s] = 0]
    /\ calls' = [calls EXCEPT ![s] = <<>>]
    /\ results' = [results EXCEPT ![s] = <<>>]
    /\ sent' = [sent EXCEPT ![s] = <<>>]
    /\ UNCHANGED << config, status_reply, user_data >>

\* ------------------------------------------------------------ specification
Next ==
    \E s \in Sessions :
        \/ \E c \in Choices, answered \in BOOLEAN : button_handler(s, c, answered)
        \/ HandleMessage(s)
        \/ \E ok \in BOOLEAN : TypingDone(s, ok)
        \/ \E ok \in BOOLEAN : TypingGeminiDone(s, ok)
        \/ \E r \in GeminiOutcomes : GeminiReturn(s, r)
        \/ GeminiStall(s)
        \/ \E ok \in BOOLEAN : TypingGrokDone(s, ok)
        \/ \E r \in GrokOutcomes : GrokReturn(s, r)
        \/ GrokStall(s)
        \/ GrokTimeout(s)
        \/ \E delivered \in BOOLEAN : Reply(s, delivered)
        \/ \E delivered \in BOOLEAN : ErrorReply(s, delivered)
        \/ Return(s)
        \/ \E delivered \in BOOLEAN : status_command(s, delivered)

Spec == Init /\ [][Next]_vars

\* every pending await of a handler completes: the transport answers, a
\* backend that answers is heard, and the timeout of the POST expires
Fairness ==
    \A s \in Sessions :
        /\ WF_vars(\E ok \in BOOLEAN : TypingDone(s, ok))
        /\ WF_vars(\E ok \in BOOLEAN : TypingGeminiDone(s, ok))
        /\ WF_vars(\E r \in GeminiOutcomes : GeminiReturn(s, r))
        /\ WF_vars(\E ok \in BOOLEAN : TypingGrokDone(s, ok))
        /\ WF_vars(\E r \in GrokOutcomes : GrokReturn(s, r))
        /\ WF_vars(GrokTimeout(s))
        /\ WF_vars(\E delivered \in BOOLEAN : Reply(s, delivered))
        /\ WF_vars(\E delivered \in BOOLEAN : ErrorReply(s, delivered))

FairSpec == Spec /\ Fairness

\* ------------------------------------------------------------------ claims
Modes == {"gemini", "grok", "both_ai"}

\* the adapters invoked so far for the message in hand
Invoked(s) == { calls[s][k].p : k \in 1..Len(calls[s]) }

\* the text a handling in 'both_ai' mode renders from its two results
BothRendering(s) ==
    TCat(Separator,
         TCat(TCat(GeminiLabel, results[s][1].text),
              TCat(Newlines, TCat(GrokLabel, results[s][2].text))))

\* the labels of a text, in the order they occur in it
LabelsOf(t) ==
    LET labels == SelectSeq(t, LAMBDA r : r.ch \in {"gemini_label", "grok_label"})
    IN  [k \in 1..Len(labels) |-> labels[k].ch]

\* the texts delivered so far, concatenated in the order sent
Delivered(s) == ConcatAll([k \in 1..Len(sent[s]) |-> sent[s][k].text])

\* C1: in 'both_ai' mode the two adapter calls are dispatched concurrently:
\* while the Gemini call is in flight, the Grok adapter has been invoked too.
C1_ConcurrentDispatch ==
    \A s \in Sessions :
        (ai_choice[s] = "both_ai" /\ pc[s] \in {"gemini", "gemini_stalled"})
            => "grok" \in Invoked(s)

\* C2: in 'both_ai' mode the rendered response lists the results in the order
\* gemini, grok, whichever of the two backends succeeded or failed.
C2_CanonicalOrder ==
    \A s \in Sessions :
        (ai_choice[s] = "both_ai" /\ final_response[s] # <<>>) =>
            /\ [k \in 1..Len(results[s]) |-> results[s][k].p] = << "gemini", "grok" >>
            /\ LabelsOf(final_response[s]) = << "gemini_label", "grok_label" >>
            /\ final_response[s] = BothRendering(s)

C2_Witness ==
    \E s \in Sessions :
        /\ ai_choice[s] = "both_ai"
        /\ pc[s] = "replied"
        /\ Len(results[s]) = 2
        /\ ~results[s][1].ok
        /\ results[s][2].ok

\* C3: a backend failure never aborts the handling of a message: an adapter
\* that returns never leads to the error path, and in 'both_ai' mode, whatever
\* the two results are, both adapters were invoked, both results are in the
\* rendered response, and the reply delivered is that response.
C3_Isolated ==
    \A s \in Sessions :
        /\ (ai_choice[s] = "both_ai" /\ pc[s] \in {"reply", "replied"}) =>
              /\ Invoked(s) = Providers
              /\ Len(results[s]) = 2
              /\ final_response[s] = BothRendering(s)
        /\ (ai_choice[s] = "both_ai" /\ pc[s] = "replied") =>
              Delivered(s) = BothRendering(s)

C3_NoAbort ==
    \A s \in Sessions :
        pc[s] \in {"gemini", "grok", "grok_stalled"} /\ pc'[s] # pc[s]
            => pc'[s] \in {"gemini_stalled", "grok_stalled", "typing_grok", "reply"}

\* C3: both parts, in every state and at every step
C3_FailureNeverAborts == [] C3_Isolated /\ [][C3_NoAbort]_vars

C3_Witness ==
    \E s \in Sessions :
        /\ ai_choice[s] = "both_ai"
        /\ pc[s] = "replied"
        /\ Len(results[s]) = 2
        /\ ~results[s][1].ok
        /\ ~results[s][2].ok
        /\ Delivered(s) = BothRendering(s)

\* C4: the mode stored for a session is always one of gemini, grok, both_ai
\* (or not yet selected).
C4_ModeIsClosed ==
    \A s \in Sessions : user_data[s] \in Modes \cup {Absent}

\* C5: a message whose resolved mode is none of gemini, grok, both_ai invokes
\* no adapter and gets no backend answer: the only thing sent is the error
\* message, which is what the user has received once the handling is over.
C5_UnknownModeFails ==
    \A s \in Sessions :
        (ai_choice[s] \notin Modes \cup {Absent}) =>
            /\ calls[s] = <<>>
            /\ results[s] = <<>>
            /\ pc[s] \in {"typing", "error_reply", "error_replied", "raised"}
            /\ \A k \in 1..Len(sent[s]) : sent[s][k].kind = "error"
            /\ pc[s] = "error_replied" => Len(sent[s]) = 1

C5_Witness ==
    \E s \in Sessions :
        /\ ai_choice[s] = "switch_ai"
        /\ pc[s] = "error_replied"
        /\ calls[s] = <<>>

\* C6: a message handled in mode gemini or grok invokes that adapter exactly
\* once and no other adapter; the mode of a message is the session's selection
\* when its handling starts.
C6_Routed ==
    \A s \in Sessions :
        ai_choice[s] \in {"gemini", "grok"} =>
            /\ Len(calls[s]) <= 1
            /\ Invoked(s) \subseteq {ai_choice[s]}
            /\ pc[s] \in {"gemini", "gemini_stalled", "grok", "grok_stalled",
                          "reply", "replied", "error_reply", "error_replied"}
                 => Len(calls[s]) = 1

C6_ResolvedFromSelection ==
    \A s \in Sessions :
        (pc[s] = "idle" /\ pc'[s] = "typing" /\ user_data[s] \in {"gemini", "grok"})
            => ai_choice'[s] = user_data[s]

\* C6: both parts, in every state and at every step
C6_SingleBackendOnly == [] C6_Routed /\ [][C6_ResolvedFromSelection]_vars

C6_Witness ==
    \E s \in Sessions :
        /\ user_data[s] = "gemini"
        /\ ai_choice[s] = "gemini"
        /\ pc[s] = "replied"
        /\ Invoked(s) = {"gemini"}

\* C7: every handling of a message eventually completes, even if a backend
\* never answers.
C7_Completes ==
    \A s \in Sessions : (pc[s] = "typing") ~> (pc[s] \in Finished)

\* C8: once a response has been sent, the pieces sent, concatenated in the
\* order sent, are the rendered response, and no piece is longer than
\* ChunkSize; while it is being sent, the pieces sent are its first i characters.
C8_RoundTrip ==
    \A s \in Sessions :
        /\ pc[s] = "replied" => Delivered(s) = final_response[s]
        /\ pc[s] = "reply" => Delivered(s) = Take(final_response[s], i[s])
        /\ \A k \in 1..Len(sent[s]) : TLen(sent[s][k].text) <= ChunkSize

C8_Witness ==
    \E s \in Sessions :
        /\ pc[s] = "replied"
        /\ Len(sent[s]) = 3
        /\ Delivered(s) = final_response[s]

\* C9: a response of length L is sent as one piece when L <= ChunkSize and as
\* ceil(L / ChunkSize) pieces otherwise, none of them empty.
PieceCount(n) == IF n <= ChunkSize THEN 1 ELSE (n + ChunkSize - 1) \div ChunkSize

C9_FragmentCount ==
    \A s \in Sessions :
        /\ pc[s] = "replied" => Len(sent[s]) = PieceCount(TLen(final_response[s]))
        /\ \A k \in 1..Len(sent[s]) : TLen(sent[s][k].text) > 0

C9_Witness ==
    \E s \in Sessions :
        /\ pc[s] = "replied"
        /\ TLen(final_response[s]) = 9000
        /\ Len(sent[s]) = 3

\* the adapters a mode dispatches to
Targets(mode) ==
    IF mode = "both_ai" THEN Providers
    ELSE IF mode \in Providers THEN {mode}
    ELSE {}

\* C10: a selection in one session leaves the selection of every other
\* session unchanged, and a message is routed by the selection of its own
\* session: the mode it resolves is that session's, and the adapters it
\* invokes are the targets of that mode.
C10_OwnSelection ==
    \A s \in Sessions :
        /\ user_data'[s] # user_data[s]
             => \A t \in Sessions \ {s} : user_data'[t] = user_data[t]
        /\ (pc[s] = "idle" /\ pc'[s] = "typing")
             => ai_choice'[s] = IF user_data[s] = Absent THEN "gemini" ELSE user_data[s]

C10_OwnRouting ==
    \A s \in Sessions :
        /\ Invoked(s) \subseteq Targets(ai_choice[s])
        /\ pc[s] \in {"reply", "replied"} => Invoked(s) = Targets(ai_choice[s])

\* C10: both parts, in every state and at every step
C10_SessionIsolation == [] C10_OwnRouting /\ [][C10_OwnSelection]_vars

C10_Witness ==
    /\ user_data["s1"] = "grok"
    /\ user_data["s2"] = "both_ai"
    /\ ai_choice["s2"] = "both_ai"
    /\ pc["s2"] = "replied"
    /\ Invoked("s2") = Providers

\* a status_command of session s has just answered
StatusStep(s) == status_reply' # status_reply /\ status_reply'.session = s

\* C11: while a session has made no selection, each read of its mode gives
\* gemini, in handle_message and in status_command alike, and the read leaves
\* the session without a selection; only a button click ends that.
C11_Step ==
    \A s \in Sessions :
        user_data[s] = Absent =>
            /\ (pc[s] = "idle" /\ pc'[s] = "typing")
                 => (ai_choice'[s] = "gemini" /\ user_data'[s] = Absent)
            /\ StatusStep(s)
                 => /\ status_reply'.shown \in {ai_names["gemini"], "undelivered"}
                    /\ user_data'[s] = Absent
            /\ user_data'[s] # Absent
                 => \E c \in Choices : button_handler(s, c, TRUE)

C11_DefaultRead == [][C11_Step]_vars

C11_Witness ==
    /\ user_data["s1"] = Absent
    /\ user_data["s2"] = "grok"
    /\ status_reply.session = "s1"
    /\ status_reply.shown = "Gemini Pro"

\* the text an adapter returns when its key is not configured
NotConfiguredText(p) == IF p = "gemini" THEN GeminiNotConfigured ELSE GrokNotConfigured

Configured(p) == IF p = "gemini" THEN gemini_model ELSE grok_api_key

\* C12: an absent or placeholder key leaves the provider unconfigured, and
\* every invocation of the adapter of an unconfigured provider makes no
\* network request and returns the 'not configured' failure, in every mode.
C12_NotConfigured ==
    /\ \A key \in {"absent", "placeholder"} :
          ~InitGeminiModel(key) /\ ~InitGrokKey(key)
    /\ \A s \in Sessions : \A k \in 1..Len(calls[s]) :
          ~Configured(calls[s][k].p) =>
              /\ ~calls[s][k].net
              /\ Len(results[s]) >= k
              /\ results[s][k] = [p |-> calls[s][k].p, ok |-> FALSE,
                                  text |-> NotConfiguredText(calls[s][k].p)]

C12_Witness ==
    \E s \in Sessions :
        /\ ~gemini_model
        /\ ~grok_api_key
        /\ ai_choice[s] = "both_ai"
        /\ pc[s] = "replied"
        /\ Len(calls[s]) = 2
        /\ ~calls[s][1].net
        /\ ~calls[s][2].net

\* the label a provider's block carries in a rendered response
LabelCh(p) == IF p = "gemini" THEN "gemini_label" ELSE "grok_label"

\* C13: each adapter invoked for a message contributes exactly one result,
\* an adapter not invoked contributes none, and the rendered response has one
\* block per result.
C13_OneResultEach ==
    \A s \in Sessions :
        /\ \A j, k \in 1..Len(results[s]) :
              j # k => results[s][j].p # results[s][k].p
        /\ { results[s][k].p : k \in 1..Len(results[s]) } \subseteq Invoked(s)
        /\ pc[s] \in {"reply", "replied"} =>
              /\ { results[s][k].p : k \in 1..Len(results[s]) } = Invoked(s)
              /\ Len(results[s]) = Len(calls[s])
              /\ LabelsOf(final_response[s])
                   = [k \in 1..Len(results[s]) |-> LabelCh(results[s][k].p)]

C13_Witness ==
    \E s \in Sessions :
        /\ ai_choice[s] = "grok"
        /\ pc[s] = "replied"
        /\ Len(results[s]) = 1
        /\ results[s][1].p = "grok"
        /\ results[s][1].ok

\* the labels and separator bars of a text, in the order they occur in it
MarksOf(t) ==
    LET marks == SelectSeq(t, LAMBDA r : r.ch \in {"gemini_label", "grok_label", "bar"})
    IN  [k \in 1..Len(marks) |-> marks[k].ch]

\* C14: a single-backend response is the backend's text alone, without a
\* label; a 'both_ai' response has each result after its label, and the
\* separator between the first block and the second, not before the first.
C14_Rendering ==
    \A s \in Sessions :
        pc[s] \in {"reply", "replied"} =>
            IF ai_choice[s] = "both_ai"
            THEN MarksOf(final_response[s]) = << "gemini_label", "bar", "grok_label" >>
            ELSE final_response[s] = results[s][1].text

\* C15: pieces are sent in ascending order, one after the other; when a send
\* fails the handler goes on to send the error message and no further piece,
\* and nothing is sent after the error message.
C15_Sent ==
    \A s \in Sessions :
        /\ \A k \in 1..Len(sent[s]) :
              /\ sent[s][k].kind = "error" => k = Len(sent[s])
              /\ (sent[s][k].kind = "reply" /\ TLen(final_response[s]) > ChunkSize)
                   => sent[s][k].text = Slice(final_response[s],
                                              (k - 1) * ChunkSize, k * ChunkSize)
        /\ (pc[s] = "reply" /\ TLen(final_response[s]) > ChunkSize)
              => i[s] = ChunkSize * Len(sent[s])
        /\ pc[s] = "error_replied"
              => (sent[s] # <<>> /\ sent[s][Len(sent[s])].kind = "error")

C15_Step ==
    \A s \in Sessions :
        /\ (pc[s] = "reply" /\ pc'[s] \notin {"reply", "replied"})
              => (pc'[s] = "error_reply" /\ sent'[s] = sent[s])
        /\ (pc[s] = "error_reply" /\ pc'[s] # pc[s])
              => \/ /\ pc'[s] = "error_replied"
                    /\ sent'[s] = Append(sent[s], [kind |-> "error", markup |-> FALSE,
                                                   text |-> error_text])
                 \/ /\ pc'[s] = "raised"
                    /\ sent'[s] = sent[s]
        /\ (pc[s] \in {"error_replied", "raised"} /\ pc'[s] # "idle")
              => sent'[s] = sent[s]

\* C15: both parts, in every state and at every step
C15_FallbackOnFailure == [] C15_Sent /\ [][C15_Step]_vars

C15_Witness ==
    \E s \in Sessions :
        /\ pc[s] = "error_replied"
        /\ TLen(final_response[s]) > 2 * ChunkSize
        /\ Len(sent[s]) = 2
        /\ sent[s][1].kind = "reply"
        /\ sent[s][2].kind = "error"

\* the text handle_message renders in a mode from the results of its adapters
RenderingOf(mode, res) ==
    IF mode = "both_ai"
    THEN TCat(Separator,
              TCat(TCat(GeminiLabel, res[1].text),
                   TCat(Newlines, TCat(GrokLabel, res[2].text))))
    ELSE IF mode = "gemini" THEN TCat(GeminiLabel, res[1].text)
    ELSE TCat(GrokLabel, res[1].text)

\* C16: the mode of a message is fixed when its handling starts: a selection
\* made while the message is in hand changes only the stored selection, and
\* the adapters invoked and the text rendered are those of the mode resolved
\* at the start.
C16_Routed ==
    \A s \in Sessions :
        pc[s] \in {"reply", "replied"} =>
            /\ Invoked(s) = Targets(ai_choice[s])
            /\ final_response[s] = RenderingOf(ai_choice[s], results[s])

C16_Step ==
    \A s \in Sessions :
        /\ (pc[s] # "idle" /\ pc'[s] # "idle") => ai_choice'[s] = ai_choice[s]
        /\ user_data'[s] # user_data[s] =>
              /\ pc' = pc
              /\ UNCHANGED << locals, calls, results, sent >>

\* C16: both parts, in every state and at every step
C16_ResolvedOnce == [] C16_Routed /\ [][C16_Step]_vars

C16_Witness ==
    \E s \in Sessions :
        /\ ai_choice[s] = "grok"
        /\ user_data[s] = "both_ai"
        /\ pc[s] = "replied"
        /\ Invoked(s) = {"grok"}
        /\ final_response[s] = TCat(GrokLabel, results[s][1].text)

\* C17: a step that changes a stored selection is a button click with a
\* choice other than 'help' and 'start_chat', and changes nothing else; every
\* step of handle_message and every status_command leaves all selections as
\* they are.
C17_Step ==
    /\ user_data' # user_data =>
          /\ \E s \in Sessions :
                /\ user_data'[s] \in Choices \ {"help", "start_chat"}
                /\ \A t \in Sessions \ {s} : user_data'[t] = user_data[t]
          /\ UNCHANGED << config, pc, locals, calls, results, sent, status_reply >>
    /\ (pc' # pc \/ sent' # sent \/ status_reply' # status_reply)
          => user_data' = user_data

C17_OnlySelectionChangesMode == [][C17_Step]_vars

C17_Witness ==
    \E s \in Sessions :
        /\ user_data[s] = "both_ai"
        /\ ai_choice[s] = "both_ai"
        /\ pc[s] = "error_replied"
        /\ Len(sent[s]) >= 2
        /\ status_reply = NoStatus

====
